---- MODULE Spec2Model ----
(***************************************************************************)
(* The causality engine of OaaS (internal/causality) with the REST         *)
(* handlers that write the facts it reads (internal/api), over the         *)
(* relational schema of db/migrations.                                     *)
(*                                                                         *)
(* Tables are state variables.  A handler that runs alone is one action;   *)
(* ActualizePotentiality is also given statement by statement (one step    *)
(* per database statement) for the interleavings with other requests.      *)
(***************************************************************************)
EXTENDS Naturals, Sequences, FiniteSets, TLC

VARIABLES
    substances,      \* table substances: the set of ids
    fields,          \* table substances, the other columns: id -> [name, kind, essence]
    attributes,      \* table attributes: set of [id, name]
    modes,           \* table modes, in insertion order: Seq of [id, value, substance_id, attribute_id]
    potentialities,  \* table potentialities: set of [id, conditions, substance_id]
    actualities,     \* table actualities: set of [id, description, substance_id, potentiality_id]
    relations,       \* table causal_relations, in insertion order: Seq of [cause_type, from_entity, to_entity]
    last,            \* what the most recently completed request returned
    calls            \* the ActualizePotentiality requests in flight, per worker

vars == <<substances, fields, attributes, modes, potentialities, actualities, relations, last, calls>>

tables == <<substances, fields, attributes, modes, potentialities, actualities, relations>>

-----------------------------------------------------------------------------
(* Bounds of the model.                                                    *)

MaxModes == 2
MaxPotentialities == 2
MaxActualities == 2
MaxRelations == 4
MaxEdges == 2

\* the entities the requests name
SubstanceIDs == {1, 2}
ModeIDs == 1..MaxModes
PotentialityIDs == 1..MaxPotentialities
ActualityIDs == 1..MaxActualities

\* Identifiers are uuids; the order of these numbers stands for the order of
\* the uuid strings, which is what ORDER BY id sees.

-----------------------------------------------------------------------------
(* JSON texts and encoding/json.Unmarshal into []Condition.                *)
(*                                                                         *)
(* A text is [form, elems]; form says what the text is as JSON: "empty"    *)
(* (no text), "malformed", "null", "object" (valid JSON, not an array) or  *)
(* "array", whose elements are elems.  An element is [form, type, name,    *)
(* value] with form "object", "null" or "number"; type, name and value are *)
(* JSON values [t, v]: t is "absent", "null", "string", "number", "bool"   *)
(* or "array", and v the literal as written.                               *)

JAbsent == [t |-> "absent", v |-> ""]
JNull == [t |-> "null", v |-> "null"]
JStr(s) == [t |-> "string", v |-> s]
JNum(lit) == [t |-> "number", v |-> lit]
JBool(lit) == [t |-> "bool", v |-> lit]

Obj(type, name, value) == [form |-> "object", type |-> type, name |-> name, value |-> value]
Cond(type, name, value) == Obj(JStr(type), JStr(name), JStr(value))
List(elems) == [form |-> "array", elems |-> elems]

\* The Go value a JSON value decodes to in an interface{}: nil for null or a
\* missing field, string, float64, bool.
GoNil == [t |-> "nil", v |-> ""]

\* strconv's shortest decimal form of the float64 a JSON number literal denotes.
FormatFloat(lit) ==
    CASE lit = "5.0" -> "5"
      [] lit = "1e2" -> "100"
      [] OTHER -> lit

DecodeValue(j) ==
    CASE j.t \in {"absent", "null"} -> GoNil
      [] j.t = "number" -> [t |-> "float64", v |-> FormatFloat(j.v)]
      [] OTHER -> j

\* A string field keeps "" when the key is missing or null and cannot take
\* any other JSON type.
StringFieldOK(j) == j.t \in {"absent", "null", "string"}
DecodeString(j) == IF j.t = "string" THEN j.v ELSE ""

ElemOK(e) ==
    \/ e.form = "null"
    \/ e.form = "object" /\ StringFieldOK(e.type) /\ StringFieldOK(e.name)

DecodeElem(e) ==
    IF e.form = "null"
    THEN [Type |-> "", Name |-> "", Value |-> GoNil]
    ELSE [Type |-> DecodeString(e.type), Name |-> DecodeString(e.name),
          Value |-> DecodeValue(e.value)]

\* json.Unmarshal([]byte(text), &conditions): [err, conditions]
Unmarshal(text) ==
    CASE text.form = "null" -> [err |-> FALSE, conditions |-> <<>>]
      [] text.form = "array" /\ \A i \in 1..Len(text.elems) : ElemOK(text.elems[i]) ->
            [err |-> FALSE,
             conditions |-> [i \in 1..Len(text.elems) |-> DecodeElem(text.elems[i])]]
      [] OTHER -> [err |-> TRUE, conditions |-> <<>>]

\* fmt.Sprintf("%v", value)
Sprint(value) == IF value.t = "nil" THEN "<nil>" ELSE value.v

-----------------------------------------------------------------------------
(* Queries of the engine on the tables.                                    *)

AttributeName(aid) ==
    IF \E a \in attributes : a.id = aid
    THEN (CHOOSE a \in attributes : a.id = aid).name
    ELSE ""

\* modes JOIN attributes ON modes.attribute_id = attributes.id
\*   WHERE modes.substance_id = ? AND attributes.name = ?
JoinedModes(substanceID, name) ==
    { i \in 1..Len(modes) :
        /\ modes[i].substance_id = substanceID
        /\ \E a \in attributes : a.id = modes[i].attribute_id /\ a.name = name }

\* ... First(&mode): ORDER BY modes.id LIMIT 1
FirstMode(substanceID, name) ==
    LET J == JoinedModes(substanceID, name)
    IN  modes[CHOOSE i \in J : \A j \in J : modes[i].id <= modes[j].id]

\* The value bound to "modes.value = ?" equals the column's text: a string
\* is compared as it is; nil binds NULL, which equals nothing; a float64 or
\* a bool is bound as a number, not as its text.
BoundEquals(column, value) == value.t = "string" /\ column = value.v

\* ... AND modes.value = ?  Count(&count)
CountModes(substanceID, name, value) ==
    Cardinality({ i \in JoinedModes(substanceID, name) : BoundEquals(modes[i].value, value) })

-----------------------------------------------------------------------------
(* Condition evaluation (internal/causality).                              *)

Verdict(met, reason) == [met |-> met, reason |-> reason]

\* As checkAttributeCondition, with the comparison of the values inverted.
checkAttributeCondition_Inverted(substanceID, condition) ==
    IF JoinedModes(substanceID, condition.Name) = {}
    THEN Verdict(FALSE, "attribute '" \o condition.Name \o "' not found for substance")
    ELSE LET mode == FirstMode(substanceID, condition.Name)
         IN  IF mode.value = Sprint(condition.Value)
             THEN Verdict(FALSE, "attribute '" \o condition.Name \o "' has value '"
                                  \o mode.value \o "', expected '"
                                  \o Sprint(condition.Value) \o "'")
             ELSE Verdict(TRUE, "")

checkAttributeCondition(substanceID, condition) ==
    IF JoinedModes(substanceID, condition.Name) = {}
    THEN Verdict(FALSE, "attribute '" \o condition.Name \o "' not found for substance")
    ELSE LET mode == FirstMode(substanceID, condition.Name)
         IN  IF mode.value # Sprint(condition.Value)
             THEN Verdict(FALSE, "attribute '" \o condition.Name \o "' has value '"
                                  \o mode.value \o "', expected '"
                                  \o Sprint(condition.Value) \o "'")
             ELSE Verdict(TRUE, "")

\* As checkModeCondition, counting only the row of the property inserted last.
checkModeCondition_Latest(substanceID, condition) ==
    LET J == JoinedModes(substanceID, condition.Name)
    IN  IF \E i \in J : /\ \A j \in J : j <= i
                        /\ BoundEquals(modes[i].value, condition.Value)
        THEN Verdict(TRUE, "")
        ELSE Verdict(FALSE, "mode condition not met: " \o condition.Name \o " = "
                             \o Sprint(condition.Value))

checkModeCondition(substanceID, condition) ==
    IF CountModes(substanceID, condition.Name, condition.Value) = 0
    THEN Verdict(FALSE, "mode condition not met: " \o condition.Name \o " = "
                         \o Sprint(condition.Value))
    ELSE Verdict(TRUE, "")

\* As checkSingleCondition, with a default case that lets the condition pass.
checkSingleCondition_DefaultPass(substanceID, condition) ==
    CASE condition.Type = "attribute" -> checkAttributeCondition(substanceID, condition)
      [] condition.Type = "mode" -> checkModeCondition(substanceID, condition)
      [] OTHER -> Verdict(TRUE, "")

\* As checkSingleCondition, looking an external condition up as a mode.
checkSingleCondition_ExternalAsMode(substanceID, condition) ==
    CASE condition.Type = "attribute" -> checkAttributeCondition(substanceID, condition)
      [] condition.Type \in {"mode", "external"} -> checkModeCondition(substanceID, condition)
      [] OTHER -> Verdict(FALSE, "unknown condition type: " \o condition.Type)

checkSingleCondition(substanceID, condition) ==
    CASE condition.Type = "attribute" -> checkAttributeCondition(substanceID, condition)
      [] condition.Type = "mode" -> checkModeCondition(substanceID, condition)
      [] condition.Type = "external" -> Verdict(TRUE, "")
      [] OTHER -> Verdict(FALSE, "unknown condition type: " \o condition.Type)

\* As EvalLoop, leaving the loop at the first condition that is not met.
RECURSIVE EvalLoop_ShortCircuit(_, _, _)
EvalLoop_ShortCircuit(substanceID, conditions, n) ==
    IF n = 0
    THEN [allMet |-> TRUE, unmetConditions |-> <<>>]
    ELSE LET before == EvalLoop_ShortCircuit(substanceID, conditions, n - 1)
             v == checkSingleCondition(substanceID, conditions[n])
         IN  IF v.met \/ ~before.allMet
             THEN before
             ELSE [allMet |-> FALSE,
                   unmetConditions |-> Append(before.unmetConditions, v.reason)]

\* The loop of CheckConditions over conditions[1..n]: [allMet, unmetConditions]
RECURSIVE EvalLoop(_, _, _)
EvalLoop(substanceID, conditions, n) ==
    IF n = 0
    THEN [allMet |-> TRUE, unmetConditions |-> <<>>]
    ELSE LET before == EvalLoop(substanceID, conditions, n - 1)
             v == checkSingleCondition(substanceID, conditions[n])
         IN  IF v.met
             THEN before
             ELSE [allMet |-> FALSE,
                   unmetConditions |-> Append(before.unmetConditions, v.reason)]

HasPotentiality(potentialityID) == \E p \in potentialities : p.id = potentialityID
\* As PotentialityByID, without the WHERE on id: some stored potentiality.
PotentialityByID_Any(potentialityID) == CHOOSE p \in potentialities : TRUE
PotentialityByID(potentialityID) == CHOOSE p \in potentialities : p.id = potentialityID

ErrNone == ""
ErrPotentialityNotFound == "potentiality not found"
ErrInvalidConditions == "invalid conditions format"
ErrConditionsNotMet == "cannot actualize potentiality: conditions not met"
ErrCreateActuality == "failed to create actuality"
ErrSubstanceNotFound == "substance not found"
ErrInvalidConditionsJSON == "invalid conditions JSON format"
ErrCreatePotentiality == "failed to create potentiality"
ErrInvalidCauseType == "invalid cause type"
ErrCreateMode == "create mode failed"
ErrCreateAttribute == "create attribute failed"

\* CheckConditions(potentialityID): [err, ready, unmet]
CheckConditions(potentialityID) ==
    IF ~HasPotentiality(potentialityID)
    THEN [err |-> ErrPotentialityNotFound, ready |-> FALSE, unmet |-> <<>>]
    ELSE LET potentiality == PotentialityByID(potentialityID)
             parsed == Unmarshal(potentiality.conditions)
         IN  IF parsed.err
             THEN [err |-> ErrInvalidConditions, ready |-> FALSE, unmet |-> <<>>]
             ELSE LET r == EvalLoop(potentiality.substance_id, parsed.conditions,
                                    Len(parsed.conditions))
                  IN  [err |-> ErrNone, ready |-> r.allMet, unmet |-> r.unmetConditions]

-----------------------------------------------------------------------------
(* Inputs of the requests.                                                 *)

ModeValues == {"green", "red"}
Descriptions == {"grew leaves", "achieved wisdom"}
AttributeNames == {"color", "season"}
CauseTypes == {"material", "formal", "efficient", "final", "invalid"}
Entities == {"X", "Y", "Z"}

TextEmpty == [form |-> "empty", elems |-> <<>>]
TextEmptyList == List(<<>>)
TextMalformed == [form |-> "malformed", elems |-> <<Cond("attribute", "season", "spring")>>]
TextObject == [form |-> "object", elems |-> <<>>]
TextNull == [form |-> "null", elems |-> <<>>]
TextModeGreen == List(<<Cond("mode", "color", "green")>>)
TextAttributeGreen == List(<<Cond("attribute", "color", "green")>>)
TextBoth == List(<<Cond("attribute", "color", "red"), Cond("mode", "color", "green")>>)
TextExternal == List(<<Cond("external", "weather", "sunny")>>)
TextUnknownType == List(<<Cond("sensor", "color", "green")>>)
TextTypeNumber == List(<<Obj(JNum("5"), JStr("color"), JStr("green"))>>)
TextBare == List(<<Obj(JAbsent, JAbsent, JAbsent)>>)

TextExternalMode ==
    List(<<Cond("external", "weather", "sunny"), Cond("mode", "color", "green")>>)
TextUnknownAmong ==
    List(<<Cond("mode", "color", "green"), Cond("sensor", "color", "green")>>)

ConditionTexts ==
    { TextEmpty, TextEmptyList, TextMalformed, TextObject, TextNull, TextModeGreen,
      TextAttributeGreen, TextBoth, TextExternal, TextUnknownType, TextTypeNumber,
      TextBare }

-----------------------------------------------------------------------------
(* What a request returned.                                                *)

NoCauses == [k \in {} |-> ""]
NoFields == [s \in {} |-> ""]
NoEvolution == [potentialities |-> {}, actualities |-> {}]

Result(op, id, err, ready, unmet, created) ==
    [op |-> op, id |-> id, err |-> err, ready |-> ready, unmet |-> unmet,
     created |-> created, causes |-> NoCauses, entity |-> "",
     evolution |-> NoEvolution]

Idle == [pc |-> "idle"]

\* db/migrations/001: the sample attributes every database starts with
SeedAttributes ==
    { [id |-> "attr-1", name |-> "color"], [id |-> "attr-2", name |-> "virtue"],
      [id |-> "attr-3", name |-> "height"], [id |-> "attr-4", name |-> "health"] }

Workers == {1, 2}

Init ==
    /\ substances = {}
    /\ fields = NoFields
    /\ attributes = SeedAttributes
    /\ modes = <<>>
    /\ potentialities = {}
    /\ actualities = {}
    /\ relations = <<>>
    /\ last = Result("none", 0, ErrNone, FALSE, <<>>, 0)
    /\ calls = [w \in Workers |-> Idle]

-----------------------------------------------------------------------------
(* The handlers that write the facts (internal/api).                       *)

\* uuid.New() for a potentiality or an actuality: an identifier that no record
\* of the table bears.  These identifiers are only ever compared for equality,
\* so of the unused ones the least stands for any.
NewUUID(unused) == { id \in unused : \A other \in unused : id <= other }

ModeIDsUsed == { modes[i].id : i \in 1..Len(modes) }

\* NewSubstance(name, kind, essence)
NewSubstance(name, kind, essence) == [name |-> name, kind |-> kind, essence |-> essence]

\* The substance every request of creation describes
Tree == NewSubstance("Tree-001", "Oak", "Original essence")

CreateSubstance ==
    \E id \in SubstanceIDs \ substances :
        /\ substances' = substances \cup {id}
        /\ fields' = [s \in substances \cup {id} |-> IF s = id THEN Tree ELSE fields[s]]
        /\ last' = Result("CreateSubstance", id, ErrNone, FALSE, <<>>, id)
        /\ UNCHANGED <<attributes, modes, potentialities, actualities, relations, calls>>

\* DELETE FROM substances WHERE id = ?, with the ON DELETE CASCADE of modes,
\* potentialities and actualities (and of actualities through potentialities)
DeleteSubstance(id) ==
    LET keepMode(m) == m.substance_id # id
        gone == { p.id : p \in { q \in potentialities : q.substance_id = id } }
    IN  /\ substances' = substances \ {id}
        /\ fields' = [s \in substances \ {id} |-> fields[s]]
        /\ modes' = SelectSeq(modes, keepMode)
        /\ potentialities' = { p \in potentialities : p.substance_id # id }
        /\ actualities' = { a \in actualities :
                              a.substance_id # id /\ a.potentiality_id \notin gone }
        /\ last' = Result("DeleteSubstance", id, ErrNone, FALSE, <<>>, 0)
        /\ UNCHANGED <<attributes, relations, calls>>

\* A field of the request of UpdateSubstance: a *string, nil when the key is
\* not in the body.
Nil == [nil |-> TRUE, v |-> ""]
Ptr(v) == [nil |-> FALSE, v |-> v]

\* As Updates, writing every column, the ones not supplied as "".
Updates_EveryColumn(row, req) ==
    [name |-> req.Name.v, kind |-> req.Kind.v, essence |-> req.Essence.v]

\* updates := map[string]interface{}{...}; Model(&substance).Updates(updates):
\* the row with the columns of the keys supplied set, the other columns kept
\* (with no key supplied no statement is run).
Updates(row, req) ==
    [name |-> IF req.Name.nil THEN row.name ELSE req.Name.v,
     kind |-> IF req.Kind.nil THEN row.kind ELSE req.Kind.v,
     essence |-> IF req.Essence.nil THEN row.essence ELSE req.Essence.v]

UpdateSubstance(id, req) ==
    IF id \notin substances
    THEN /\ last' = Result("UpdateSubstance", id, ErrSubstanceNotFound, FALSE, <<>>, 0)
         /\ UNCHANGED <<tables, calls>>
    ELSE /\ fields' = [fields EXCEPT ![id] = Updates(fields[id], req)]
         /\ last' = Result("UpdateSubstance", id, ErrNone, FALSE, <<>>, 0)
         /\ UNCHANGED <<substances, attributes, modes, potentialities, actualities,
                        relations, calls>>

CreateAttribute(name) ==
    IF \E a \in attributes : a.name = name
    THEN /\ last' = Result("CreateAttribute", 0, ErrCreateAttribute, FALSE, <<>>, 0)
         /\ UNCHANGED <<tables, calls>>
    ELSE /\ attributes' = attributes \cup {[id |-> "attr-" \o name, name |-> name]}
         /\ last' = Result("CreateAttribute", 0, ErrNone, FALSE, <<>>, 0)
         /\ UNCHANGED <<substances, fields, modes, potentialities, actualities, relations, calls>>

\* As CreateMode, the new row taking the place of the rows of the same
\* substance and attribute.
CreateMode_Replace(value, substanceID, attributeID) ==
    LET other(m) == m.substance_id # substanceID \/ m.attribute_id # attributeID
    IN  IF substanceID \in substances /\ \E a \in attributes : a.id = attributeID
        THEN \E id \in ModeIDs \ ModeIDsUsed :
                /\ modes' = Append(SelectSeq(modes, other),
                                   [id |-> id, value |-> value,
                                    substance_id |-> substanceID,
                                    attribute_id |-> attributeID])
                /\ last' = Result("CreateMode", substanceID, ErrNone, FALSE, <<>>, id)
                /\ UNCHANGED <<substances, fields, attributes, potentialities,
                               actualities, relations, calls>>
        ELSE /\ last' = Result("CreateMode", substanceID, ErrCreateMode, FALSE, <<>>, 0)
             /\ UNCHANGED <<tables, calls>>

\* As CreateMode, on a table of modes without its foreign keys.
CreateMode_NoForeignKeys(value, substanceID, attributeID) ==
    \E id \in ModeIDs \ ModeIDsUsed :
        /\ modes' = Append(modes, [id |-> id, value |-> value,
                                   substance_id |-> substanceID,
                                   attribute_id |-> attributeID])
        /\ last' = Result("CreateMode", substanceID, ErrNone, FALSE, <<>>, id)
        /\ UNCHANGED <<substances, fields, attributes, potentialities, actualities,
                       relations, calls>>

\* db.Create(mode): the handler checks nothing itself; the foreign keys of the
\* table (substance_id, attribute_id) make the INSERT fail when either names
\* no row.
CreateMode(value, substanceID, attributeID) ==
    IF substanceID \in substances /\ \E a \in attributes : a.id = attributeID
    THEN \E id \in ModeIDs \ ModeIDsUsed :
            /\ modes' = Append(modes, [id |-> id, value |-> value,
                                       substance_id |-> substanceID,
                                       attribute_id |-> attributeID])
            /\ last' = Result("CreateMode", substanceID, ErrNone, FALSE, <<>>, id)
            /\ UNCHANGED <<substances, fields, attributes, potentialities, actualities,
                           relations, calls>>
    ELSE /\ last' = Result("CreateMode", substanceID, ErrCreateMode, FALSE, <<>>, 0)
         /\ UNCHANGED <<tables, calls>>

-----------------------------------------------------------------------------
(* The engine's operations (internal/causality), each run alone.           *)

\* As CreatePotentiality, without the lookup of the substance.
CreatePotentiality_NoSubstanceCheck(conditions, substanceID) ==
    IF conditions.form # "empty" /\ Unmarshal(conditions).err
    THEN /\ last' = Result("CreatePotentiality", 0, ErrInvalidConditionsJSON, FALSE, <<>>, 0)
         /\ UNCHANGED <<tables, calls>>
    ELSE \E id \in NewUUID(PotentialityIDs \ { p.id : p \in potentialities }) :
            /\ potentialities' = potentialities \cup
                    {[id |-> id, conditions |-> conditions, substance_id |-> substanceID]}
            /\ last' = Result("CreatePotentiality", id, ErrNone, FALSE, <<>>, id)
            /\ UNCHANGED <<substances, fields, attributes, modes, actualities, relations, calls>>

\* As CreatePotentiality, without the trial Unmarshal of the conditions.
CreatePotentiality_NoValidation(conditions, substanceID) ==
    IF substanceID \notin substances
    THEN /\ last' = Result("CreatePotentiality", 0, ErrSubstanceNotFound, FALSE, <<>>, 0)
         /\ UNCHANGED <<tables, calls>>
    ELSE \E id \in NewUUID(PotentialityIDs \ { p.id : p \in potentialities }) :
            /\ potentialities' = potentialities \cup
                    {[id |-> id, conditions |-> conditions, substance_id |-> substanceID]}
            /\ last' = Result("CreatePotentiality", id, ErrNone, FALSE, <<>>, id)
            /\ UNCHANGED <<substances, fields, attributes, modes, actualities, relations, calls>>

\* As CreatePotentiality, recording the entity as the material cause of the
\* potentiality it now bears.
CreatePotentiality_Linked(conditions, substanceID) ==
    IF substanceID \notin substances
    THEN /\ last' = Result("CreatePotentiality", 0, ErrSubstanceNotFound, FALSE, <<>>, 0)
         /\ UNCHANGED <<tables, calls>>
    ELSE IF conditions.form # "empty" /\ Unmarshal(conditions).err
    THEN /\ last' = Result("CreatePotentiality", 0, ErrInvalidConditionsJSON, FALSE, <<>>, 0)
         /\ UNCHANGED <<tables, calls>>
    ELSE \E id \in NewUUID(PotentialityIDs \ { p.id : p \in potentialities }) :
            /\ potentialities' = potentialities \cup
                    {[id |-> id, conditions |-> conditions, substance_id |-> substanceID]}
            /\ relations' = Append(relations, [cause_type |-> "material",
                                               from_entity |-> id,
                                               to_entity |-> substanceID])
            /\ last' = Result("CreatePotentiality", id, ErrNone, FALSE, <<>>, id)
            /\ UNCHANGED <<substances, fields, attributes, modes, actualities, calls>>

CreatePotentiality(conditions, substanceID) ==
    IF substanceID \notin substances
    THEN /\ last' = Result("CreatePotentiality", 0, ErrSubstanceNotFound, FALSE, <<>>, 0)
         /\ UNCHANGED <<tables, calls>>
    ELSE IF conditions.form # "empty" /\ Unmarshal(conditions).err
    THEN /\ last' = Result("CreatePotentiality", 0, ErrInvalidConditionsJSON, FALSE, <<>>, 0)
         /\ UNCHANGED <<tables, calls>>
    ELSE \E id \in NewUUID(PotentialityIDs \ { p.id : p \in potentialities }) :
            /\ potentialities' = potentialities \cup
                    {[id |-> id, conditions |-> conditions, substance_id |-> substanceID]}
            /\ last' = Result("CreatePotentiality", id, ErrNone, FALSE, <<>>, id)
            /\ UNCHANGED <<substances, fields, attributes, modes, actualities, relations, calls>>

\* As HandlerCheckConditions, deleting a potentiality once found ready.
HandlerCheckConditions_Consume(potentialityID) ==
    LET c == CheckConditions(potentialityID)
    IN  /\ last' = Result("CheckConditions", potentialityID, c.err, c.ready, c.unmet, 0)
        /\ potentialities' = IF c.err = ErrNone /\ c.ready
                              THEN { p \in potentialities : p.id # potentialityID }
                              ELSE potentialities
        /\ UNCHANGED <<substances, fields, attributes, modes, actualities, relations, calls>>

\* As HandlerCheckConditions, deleting a potentiality whose conditions do not parse.
HandlerCheckConditions_Purge(potentialityID) ==
    LET c == CheckConditions(potentialityID)
    IN  /\ last' = Result("CheckConditions", potentialityID, c.err, c.ready, c.unmet, 0)
        /\ potentialities' = IF c.err = ErrInvalidConditions
                              THEN { p \in potentialities : p.id # potentialityID }
                              ELSE potentialities
        /\ UNCHANGED <<substances, fields, attributes, modes, actualities, relations, calls>>

\* Handler.CheckConditions -> Engine.CheckConditions
HandlerCheckConditions(potentialityID) ==
    LET c == CheckConditions(potentialityID)
    IN  /\ last' = Result("CheckConditions", potentialityID, c.err, c.ready, c.unmet, 0)
        /\ UNCHANGED <<tables, calls>>

\* As NewActuality, with the substance and the potentiality exchanged.
NewActuality_Swapped(id, description, substanceID, potentialityID) ==
    [id |-> id, description |-> description, substance_id |-> potentialityID,
     potentiality_id |-> substanceID]

NewActuality(id, description, substanceID, potentialityID) ==
    [id |-> id, description |-> description, substance_id |-> substanceID,
     potentiality_id |-> potentialityID]

\* As ActualizePotentiality, reporting an error of the check as unmet conditions.
ActualizePotentiality_AsUnmet(potentialityID, description) ==
    LET c == CheckConditions(potentialityID)
    IN  IF c.err # ErrNone \/ ~c.ready
        THEN /\ last' = Result("ActualizePotentiality", potentialityID, ErrConditionsNotMet,
                               FALSE, c.unmet, 0)
             /\ UNCHANGED <<tables, calls>>
        ELSE LET potentiality == PotentialityByID(potentialityID)
             IN  \E id \in NewUUID(ActualityIDs \ { a.id : a \in actualities }) :
                    /\ actualities' = actualities \cup
                          {NewActuality(id, description, potentiality.substance_id,
                                        potentialityID)}
                    /\ last' = Result("ActualizePotentiality", potentialityID, ErrNone,
                                      TRUE, <<>>, id)
                    /\ UNCHANGED <<substances, fields, attributes, modes, potentialities,
                                   relations, calls>>

\* As ActualizePotentiality, the new actuality taking the place of the earlier
\* ones of the same potentiality.
ActualizePotentiality_Replace(potentialityID, description) ==
    LET c == CheckConditions(potentialityID)
    IN  IF c.err # ErrNone
        THEN /\ last' = Result("ActualizePotentiality", potentialityID, c.err, FALSE, <<>>, 0)
             /\ UNCHANGED <<tables, calls>>
        ELSE IF ~c.ready
        THEN /\ last' = Result("ActualizePotentiality", potentialityID, ErrConditionsNotMet,
                               FALSE, c.unmet, 0)
             /\ UNCHANGED <<tables, calls>>
        ELSE LET potentiality == PotentialityByID(potentialityID)
             IN  \E id \in NewUUID(ActualityIDs \ { a.id : a \in actualities }) :
                    /\ actualities' =
                          { a \in actualities : a.potentiality_id # potentialityID } \cup
                          {NewActuality(id, description, potentiality.substance_id,
                                        potentialityID)}
                    /\ last' = Result("ActualizePotentiality", potentialityID, ErrNone,
                                      TRUE, <<>>, id)
                    /\ UNCHANGED <<substances, fields, attributes, modes, potentialities,
                                   relations, calls>>

\* As ActualizePotentiality, deleting the potentiality it has actualized.
ActualizePotentiality_Consume(potentialityID, description) ==
    LET c == CheckConditions(potentialityID)
    IN  IF c.err # ErrNone
        THEN /\ last' = Result("ActualizePotentiality", potentialityID, c.err, FALSE, <<>>, 0)
             /\ UNCHANGED <<tables, calls>>
        ELSE IF ~c.ready
        THEN /\ last' = Result("ActualizePotentiality", potentialityID, ErrConditionsNotMet,
                               FALSE, c.unmet, 0)
             /\ UNCHANGED <<tables, calls>>
        ELSE LET potentiality == PotentialityByID(potentialityID)
             IN  \E id \in NewUUID(ActualityIDs \ { a.id : a \in actualities }) :
                    /\ actualities' = actualities \cup
                          {NewActuality(id, description, potentiality.substance_id,
                                        potentialityID)}
                    /\ potentialities' = potentialities \ {potentiality}
                    /\ last' = Result("ActualizePotentiality", potentialityID, ErrNone,
                                      TRUE, <<>>, id)
                    /\ UNCHANGED <<substances, fields, attributes, modes, relations, calls>>

\* As ActualizePotentiality, without the return on !canActualize.
ActualizePotentiality_NoGuard(potentialityID, description) ==
    LET c == CheckConditions(potentialityID)
    IN  IF c.err # ErrNone
        THEN /\ last' = Result("ActualizePotentiality", potentialityID, c.err, FALSE, <<>>, 0)
             /\ UNCHANGED <<tables, calls>>
        ELSE LET potentiality == PotentialityByID(potentialityID)
             IN  \E id \in NewUUID(ActualityIDs \ { a.id : a \in actualities }) :
                    /\ actualities' = actualities \cup
                          {NewActuality(id, description, potentiality.substance_id,
                                        potentialityID)}
                    /\ last' = Result("ActualizePotentiality", potentialityID, ErrNone,
                                      TRUE, <<>>, id)
                    /\ UNCHANGED <<substances, fields, attributes, modes, potentialities,
                                   relations, calls>>

ActualizePotentiality(potentialityID, description) ==
    LET c == CheckConditions(potentialityID)
    IN  IF c.err # ErrNone
        THEN /\ last' = Result("ActualizePotentiality", potentialityID, c.err, FALSE, <<>>, 0)
             /\ UNCHANGED <<tables, calls>>
        ELSE IF ~c.ready
        THEN /\ last' = Result("ActualizePotentiality", potentialityID, ErrConditionsNotMet,
                               FALSE, c.unmet, 0)
             /\ UNCHANGED <<tables, calls>>
        ELSE LET potentiality == PotentialityByID(potentialityID)
             IN  \E id \in NewUUID(ActualityIDs \ { a.id : a \in actualities }) :
                    /\ actualities' = actualities \cup
                          {NewActuality(id, description, potentiality.substance_id,
                                        potentialityID)}
                    /\ last' = Result("ActualizePotentiality", potentialityID, ErrNone,
                                      TRUE, <<>>, id)
                    /\ UNCHANGED <<substances, fields, attributes, modes, potentialities,
                                   relations, calls>>

validTypes == {"material", "formal", "efficient", "final"}

\* As AddCausalRelation, without the validation of the cause type.
AddCausalRelation_NoValidation(fromEntity, toEntity, causeType) ==
    /\ Len(relations) < MaxRelations
    /\ relations' = Append(relations, [cause_type |-> causeType,
                                       from_entity |-> fromEntity,
                                       to_entity |-> toEntity])
    /\ last' = Result("AddCausalRelation", 0, ErrNone, FALSE, <<>>, Len(relations) + 1)
    /\ UNCHANGED <<substances, fields, attributes, modes, potentialities, actualities, calls>>

AddCausalRelation(fromEntity, toEntity, causeType) ==
    IF causeType \notin validTypes
    THEN /\ last' = Result("AddCausalRelation", 0, ErrInvalidCauseType, FALSE, <<>>, 0)
         /\ UNCHANGED <<tables, calls>>
    ELSE /\ Len(relations) < MaxRelations
         /\ relations' = Append(relations, [cause_type |-> causeType,
                                            from_entity |-> fromEntity,
                                            to_entity |-> toEntity])
         /\ last' = Result("AddCausalRelation", 0, ErrNone, FALSE, <<>>, Len(relations) + 1)
         /\ UNCHANGED <<substances, fields, attributes, modes, potentialities, actualities, calls>>

\* WHERE from_entity = ? OR to_entity = ?: the rows of the table that match
RelationsOf(substanceID) ==
    LET touches(r) == r.from_entity = substanceID \/ r.to_entity = substanceID
    IN  SelectSeq(relations, touches)

\* Find(&relations): the statement has no ORDER BY and the primary key is a
\* random uuid, so the database returns the matching rows in an order of its
\* choosing (the scan of an index on from_entity, then of one on to_entity;
\* the physical order of the pages).  Every order of the rows is an outcome.
RECURSIVE Find(_)
Find(rows) ==
    IF rows = <<>>
    THEN { <<>> }
    ELSE UNION { { <<rows[i]>> \o rest :
                     rest \in Find(SubSeq(rows, 1, i - 1) \o
                                   SubSeq(rows, i + 1, Len(rows))) } :
                 i \in 1..Len(rows) }

\* As Fold, keeping the from endpoint of each relation.
Fold_FromEntity(rs) ==
    LET kinds == { rs[i].cause_type : i \in 1..Len(rs) }
        lastOf(k) == CHOOSE i \in 1..Len(rs) :
                        /\ rs[i].cause_type = k
                        /\ \A j \in 1..Len(rs) : rs[j].cause_type = k => j <= i
    IN  [k \in kinds |-> rs[lastOf(k)].from_entity]

\* for _, relation := range relations { causes[relation.CauseType] = relation.ToEntity }
Fold(rs) ==
    LET kinds == { rs[i].cause_type : i \in 1..Len(rs) }
        lastOf(k) == CHOOSE i \in 1..Len(rs) :
                        /\ rs[i].cause_type = k
                        /\ \A j \in 1..Len(rs) : rs[j].cause_type = k => j <= i
    IN  [k \in kinds |-> rs[lastOf(k)].to_entity]

\* GetFourCauses(substanceID): the maps the call can return
GetFourCauses(substanceID) ==
    { Fold(rs) : rs \in Find(RelationsOf(substanceID)) }

\* Handler.GetCauses -> Engine.GetFourCauses
GetCauses(id) ==
    \E causes \in GetFourCauses(id) :
        /\ last' = [Result("GetFourCauses", 0, ErrNone, FALSE, <<>>, 0)
                      EXCEPT !.causes = causes, !.entity = id]
        /\ UNCHANGED <<tables, calls>>

\* Where("substance_id = ?", substanceID).Find(&potentialities)
GetPotentialitiesForSubstance(substanceID) ==
    { p \in potentialities : p.substance_id = substanceID }

\* As GetActualitiesForSubstance, without the WHERE on substance_id.
GetActualitiesForSubstance_All(substanceID) ==
    { [id |-> a.id, description |-> a.description, substance_id |-> a.substance_id,
       potentiality_id |-> a.potentiality_id,
       Potentiality |-> { p \in potentialities : p.id = a.potentiality_id }] :
      a \in actualities }

\* Preload("Potentiality").Where("substance_id = ?", substanceID).Find(&actualities):
\* each row with the potentiality its potentiality_id names, if there is one
GetActualitiesForSubstance(substanceID) ==
    { [id |-> a.id, description |-> a.description, substance_id |-> a.substance_id,
       potentiality_id |-> a.potentiality_id,
       Potentiality |-> { p \in potentialities : p.id = a.potentiality_id }] :
      a \in { b \in actualities : b.substance_id = substanceID } }

\* The SubstanceEvolution that GetSubstanceEvolution(substanceID) returns
SubstanceEvolution(substanceID) ==
    [potentialities |-> GetPotentialitiesForSubstance(substanceID),
     actualities |-> GetActualitiesForSubstance(substanceID)]

\* Handler.GetSubstanceEvolution -> Engine.GetSubstanceEvolution
GetSubstanceEvolution(substanceID) ==
    /\ last' = [Result("GetSubstanceEvolution", substanceID, ErrNone, FALSE, <<>>, 0)
                  EXCEPT !.evolution = SubstanceEvolution(substanceID)]
    /\ UNCHANGED <<tables, calls>>

-----------------------------------------------------------------------------
(* Requests served one at a time.  Each specification below is the system  *)
(* under the requests of one kind of client, its inputs drawn from the     *)
(* sets named in it.                                                       *)

\* The transitions: potentialities gated on one recorded fact.
Next ==
    \/ CreateSubstance
    \/ \E id \in SubstanceIDs : DeleteSubstance(id)
    \/ CreateMode("green", 1, "attr-1")
    \/ \E s \in SubstanceIDs : CreatePotentiality(TextModeGreen, s)
    \/ \E p \in PotentialityIDs : HandlerCheckConditions(p)
    \/ \E p \in PotentialityIDs, d \in Descriptions : ActualizePotentiality(p, d)

Spec == Init /\ [][Next]_vars

\* The evaluation of the predicates on the facts of an entity, among the
\* facts of another entity and of another attribute.
FactModes ==
    { <<"green", 1, "attr-1">>, <<"red", 1, "attr-1">>, <<"green", 2, "attr-1">>,
      <<"green", 1, "attr-3">>, <<"green", 1, "attr-0">> }
FactTexts == { TextBoth, TextAttributeGreen }

NextFacts ==
    \/ CreateSubstance
    \/ \E id \in SubstanceIDs : DeleteSubstance(id)
    \/ \E m \in FactModes : CreateMode(m[1], m[2], m[3])
    \/ \E text \in FactTexts : CreatePotentiality(text, 1)
    \/ \E p \in PotentialityIDs : HandlerCheckConditions(p)

SpecFacts == Init /\ [][NextFacts]_vars

\* Every form of condition text, on an entity with no recorded fact.
NextTexts ==
    \/ CreateSubstance
    \/ \E id \in SubstanceIDs : DeleteSubstance(id)
    \/ \E name \in AttributeNames : CreateAttribute(name)
    \/ \E text \in ConditionTexts : CreatePotentiality(text, 1)
    \/ \E p \in PotentialityIDs : HandlerCheckConditions(p)
    \/ \E p \in PotentialityIDs : ActualizePotentiality(p, "grew leaves")

SpecTexts == Init /\ [][NextTexts]_vars

\* Predicates of every type, the external and the unrecognized among them,
\* while the facts of the entity change.
TypeTexts == { TextExternal, TextExternalMode, TextUnknownAmong }

NextTypes ==
    \/ CreateSubstance
    \/ \E id \in SubstanceIDs : DeleteSubstance(id)
    \/ CreateMode("green", 1, "attr-1")
    \/ \E text \in TypeTexts : CreatePotentiality(text, 1)
    \/ \E p \in PotentialityIDs : HandlerCheckConditions(p)
    \/ \E p \in PotentialityIDs : ActualizePotentiality(p, "grew leaves")

SpecTypes == Init /\ [][NextTypes]_vars

\* The engine while queries of the store fail.  failed is the set of the
\* positions, in the list of conditions, of the conditions whose lookup the
\* database answers with an error that is not "record not found" (the
\* connection is lost, the statement times out).
StoreError == "sql: database is closed"

\* checkAttributeCondition and checkModeCondition on err != nil: both take
\* any error of the query for their verdict; the other cases query nothing.
LookupFailed(substanceID, condition) ==
    CASE condition.Type = "attribute" ->
            Verdict(FALSE, "attribute '" \o condition.Name \o "' not found for substance")
      [] condition.Type = "mode" ->
            Verdict(FALSE, "error checking mode condition: " \o StoreError)
      [] OTHER -> checkSingleCondition(substanceID, condition)

RECURSIVE EvalLoopOn(_, _, _, _)
EvalLoopOn(failed, substanceID, conditions, n) ==
    IF n = 0
    THEN [allMet |-> TRUE, unmetConditions |-> <<>>]
    ELSE LET before == EvalLoopOn(failed, substanceID, conditions, n - 1)
             v == IF n \in failed
                  THEN LookupFailed(substanceID, conditions[n])
                  ELSE checkSingleCondition(substanceID, conditions[n])
         IN  IF v.met
             THEN before
             ELSE [allMet |-> FALSE,
                   unmetConditions |-> Append(before.unmetConditions, v.reason)]

CheckConditionsOn(failed, potentialityID) ==
    IF ~HasPotentiality(potentialityID)
    THEN [err |-> ErrPotentialityNotFound, ready |-> FALSE, unmet |-> <<>>]
    ELSE LET potentiality == PotentialityByID(potentialityID)
             parsed == Unmarshal(potentiality.conditions)
         IN  IF parsed.err
             THEN [err |-> ErrInvalidConditions, ready |-> FALSE, unmet |-> <<>>]
             ELSE LET r == EvalLoopOn(failed, potentiality.substance_id,
                                      parsed.conditions, Len(parsed.conditions))
                  IN  [err |-> ErrNone, ready |-> r.allMet, unmet |-> r.unmetConditions]

HandlerCheckConditionsOn(failed, potentialityID) ==
    LET c == CheckConditionsOn(failed, potentialityID)
    IN  /\ last' = Result("CheckConditions", potentialityID, c.err, c.ready, c.unmet, 0)
        /\ UNCHANGED <<tables, calls>>

ActualizePotentialityOn(failed, potentialityID, description) ==
    LET c == CheckConditionsOn(failed, potentialityID)
    IN  IF c.err # ErrNone
        THEN /\ last' = Result("ActualizePotentiality", potentialityID, c.err, FALSE, <<>>, 0)
             /\ UNCHANGED <<tables, calls>>
        ELSE IF ~c.ready
        THEN /\ last' = Result("ActualizePotentiality", potentialityID, ErrConditionsNotMet,
                               FALSE, c.unmet, 0)
             /\ UNCHANGED <<tables, calls>>
        ELSE LET potentiality == PotentialityByID(potentialityID)
             IN  \E id \in NewUUID(ActualityIDs \ { a.id : a \in actualities }) :
                    /\ actualities' = actualities \cup
                          {NewActuality(id, description, potentiality.substance_id,
                                        potentialityID)}
                    /\ last' = Result("ActualizePotentiality", potentialityID, ErrNone,
                                      TRUE, <<>>, id)
                    /\ UNCHANGED <<substances, fields, attributes, modes, potentialities,
                                   relations, calls>>

StoreTexts == { TextAttributeGreen, TextModeGreen }
Failures == { {}, {1} }

NextStore ==
    \/ CreateSubstance
    \/ CreateMode("green", 1, "attr-1")
    \/ \E text \in StoreTexts : CreatePotentiality(text, 1)
    \/ \E failed \in Failures, p \in PotentialityIDs : HandlerCheckConditionsOn(failed, p)
    \/ \E failed \in Failures, p \in PotentialityIDs :
          ActualizePotentialityOn(failed, p, "grew leaves")

SpecStore == Init /\ [][NextStore]_vars

\* The requests on the causal relations.
\* The edges asked for: one of each kind from X to Y, two more of the kind
\* material that touch X (one from it, one to it), and one of no kind.
CausalInputs ==
    { <<"X", "Y", k>> : k \in CauseTypes } \cup
    { <<"X", "Z", "material">>, <<"Y", "X", "material">> }

NextCausal ==
    \/ \E r \in CausalInputs : AddCausalRelation(r[1], r[2], r[3])
    \/ \E e \in Entities : GetCauses(e)

SpecCausal == Init /\ [][NextCausal]_vars

-----------------------------------------------------------------------------
(* ActualizePotentiality statement by statement, among other requests.     *)
(* A worker's call goes "idle" -> "check" -> "reload" -> "create" ->       *)
(* "idle"; each step is one statement on the database, and the requests    *)
(* of the other workers come in between.                                   *)

Return(w, result) ==
    /\ calls' = [calls EXCEPT ![w] = Idle]
    /\ last' = result

\* CheckConditions: First(&potentiality) and json.Unmarshal
Start(w, potentialityID, description) ==
    /\ calls[w].pc = "idle"
    /\ UNCHANGED tables
    /\ IF ~HasPotentiality(potentialityID)
       THEN Return(w, Result("ActualizePotentiality", potentialityID,
                             ErrPotentialityNotFound, FALSE, <<>>, 0))
       ELSE LET potentiality == PotentialityByID(potentialityID)
                parsed == Unmarshal(potentiality.conditions)
            IN  IF parsed.err
                THEN Return(w, Result("ActualizePotentiality", potentialityID,
                                      ErrInvalidConditions, FALSE, <<>>, 0))
                ELSE /\ calls' = [calls EXCEPT ![w] =
                            [pc |-> IF parsed.conditions = <<>> THEN "reload" ELSE "check",
                             potentialityID |-> potentialityID,
                             description |-> description,
                             substanceID |-> potentiality.substance_id,
                             conditions |-> parsed.conditions,
                             i |-> 1, allMet |-> TRUE, unmetConditions |-> <<>>]]
                     /\ UNCHANGED last

\* As Check, going on to the write whatever the verdict of the loop.
Check_NoReturn(w) ==
    /\ calls[w].pc = "check"
    /\ UNCHANGED tables
    /\ LET c == calls[w]
           v == checkSingleCondition(c.substanceID, c.conditions[c.i])
           allMet == c.allMet /\ v.met
           unmet == IF v.met THEN c.unmetConditions
                    ELSE Append(c.unmetConditions, v.reason)
       IN  IF c.i < Len(c.conditions)
           THEN /\ calls' = [calls EXCEPT ![w] =
                       [c EXCEPT !.i = c.i + 1, !.allMet = allMet,
                                 !.unmetConditions = unmet]]
                /\ UNCHANGED last
           ELSE /\ calls' = [calls EXCEPT ![w] =
                       [c EXCEPT !.pc = "reload", !.i = c.i + 1, !.allMet = allMet,
                                 !.unmetConditions = unmet]]
                /\ UNCHANGED last

\* CheckConditions: one turn of the loop, checkSingleCondition on conditions[i]
Check(w) ==
    /\ calls[w].pc = "check"
    /\ UNCHANGED tables
    /\ LET c == calls[w]
           v == checkSingleCondition(c.substanceID, c.conditions[c.i])
           allMet == c.allMet /\ v.met
           unmet == IF v.met THEN c.unmetConditions
                    ELSE Append(c.unmetConditions, v.reason)
       IN  IF c.i < Len(c.conditions)
           THEN /\ calls' = [calls EXCEPT ![w] =
                       [c EXCEPT !.i = c.i + 1, !.allMet = allMet,
                                 !.unmetConditions = unmet]]
                /\ UNCHANGED last
           ELSE IF ~allMet
           THEN Return(w, Result("ActualizePotentiality", c.potentialityID,
                                 ErrConditionsNotMet, FALSE, unmet, 0))
           ELSE /\ calls' = [calls EXCEPT ![w] =
                       [c EXCEPT !.pc = "reload", !.i = c.i + 1]]
                /\ UNCHANGED last

\* ActualizePotentiality: First(&potentiality, "id = ?", potentialityID)
Reload(w) ==
    /\ calls[w].pc = "reload"
    /\ UNCHANGED tables
    /\ IF ~HasPotentiality(calls[w].potentialityID)
       THEN Return(w, Result("ActualizePotentiality", calls[w].potentialityID,
                             ErrPotentialityNotFound, FALSE, <<>>, 0))
       ELSE /\ calls' = [calls EXCEPT ![w] =
                   [calls[w] EXCEPT !.pc = "create",
                      !.substanceID = PotentialityByID(calls[w].potentialityID).substance_id]]
            /\ UNCHANGED last

\* As Create, under a unique key on actualities.potentiality_id.
Create_AtMostOnce(w) ==
    /\ calls[w].pc = "create"
    /\ LET c == calls[w]
       IN  IF /\ c.substanceID \in substances /\ HasPotentiality(c.potentialityID)
              /\ \A a \in actualities : a.potentiality_id # c.potentialityID
           THEN \E id \in NewUUID(ActualityIDs \ { a.id : a \in actualities }) :
                   /\ actualities' = actualities \cup
                         {NewActuality(id, c.description, c.substanceID, c.potentialityID)}
                   /\ Return(w, Result("ActualizePotentiality", c.potentialityID, ErrNone,
                                       TRUE, <<>>, id))
                   /\ UNCHANGED <<substances, fields, attributes, modes, potentialities, relations>>
           ELSE /\ Return(w, Result("ActualizePotentiality", c.potentialityID,
                                    ErrCreateActuality, FALSE, <<>>, 0))
                /\ UNCHANGED tables

\* ActualizePotentiality: db.Create(actuality), under the foreign keys of actualities
Create(w) ==
    /\ calls[w].pc = "create"
    /\ LET c == calls[w]
       IN  IF c.substanceID \in substances /\ HasPotentiality(c.potentialityID)
           THEN \E id \in NewUUID(ActualityIDs \ { a.id : a \in actualities }) :
                   /\ actualities' = actualities \cup
                         {NewActuality(id, c.description, c.substanceID, c.potentialityID)}
                   /\ Return(w, Result("ActualizePotentiality", c.potentialityID, ErrNone,
                                       TRUE, <<>>, id))
                   /\ UNCHANGED <<substances, fields, attributes, modes, potentialities, relations>>
           ELSE /\ Return(w, Result("ActualizePotentiality", c.potentialityID,
                                    ErrCreateActuality, FALSE, <<>>, 0))
                /\ UNCHANGED tables

\* A request of another client; the calls in progress stay where they are.
NextConc ==
    \/ CreateSubstance
    \/ DeleteSubstance(1)
    \/ \E value \in ModeValues : CreateMode(value, 1, "attr-1")
    \/ potentialities = {} /\ CreatePotentiality(TextAttributeGreen, 1)
    \/ \E w \in Workers, p \in PotentialityIDs : Start(w, p, "grew leaves")
    \/ \E w \in Workers : Check(w)
    \/ \E w \in Workers : Reload(w)
    \/ \E w \in Workers : Create(w)

SpecConc == Init /\ [][NextConc]_vars

-----------------------------------------------------------------------------
(* The claims.                                                             *)

\* C1: when CheckConditions(p) answers ready = false on a state,
\* ActualizePotentiality(p, d) on that state returns the "conditions not
\* met" error carrying the unmet conditions and leaves the actualities as
\* they are.
C1_UnreadyActualizeWritesNothing ==
    [][\A p \in PotentialityIDs, d \in Descriptions :
         LET c == CheckConditions(p)
         IN  (/\ last'.op = "ActualizePotentiality" /\ last'.id = p
              /\ c.err = ErrNone /\ ~c.ready
              /\ ActualizePotentiality(p, d)) =>
                /\ last'.err = ErrConditionsNotMet
                /\ last'.unmet = c.unmet
                /\ last'.unmet # <<>>
                /\ actualities' = actualities]_vars

C1_Witness ==
    /\ last.op = "ActualizePotentiality"
    /\ last.err = ErrConditionsNotMet
    /\ Len(last.unmet) > 0
    /\ HasPotentiality(last.id)
    /\ ~CheckConditions(last.id).ready

\* C3: when every condition of p is met, ActualizePotentiality(p, d)
\* succeeds and adds exactly one actuality, with an identifier no actuality
\* had, Description d, PotentialityID p and the SubstanceID of p; the
\* actualities there were stay as they were.
C3_ReadyActualizeAddsOne ==
    [][\A p \in PotentialityIDs, d \in Descriptions :
         LET c == CheckConditions(p)
         IN  (/\ last'.op = "ActualizePotentiality" /\ last'.id = p
              /\ c.err = ErrNone /\ c.ready
              /\ ActualizePotentiality(p, d)) =>
                /\ last'.err = ErrNone
                /\ \E a \in actualities' :
                      /\ a.id \notin { b.id : b \in actualities }
                      /\ a.id = last'.created
                      /\ a.description = d
                      /\ a.potentiality_id = p
                      /\ a.substance_id = PotentialityByID(p).substance_id
                      /\ actualities' = actualities \cup {a}
                /\ Cardinality(actualities') = Cardinality(actualities) + 1]_vars

C3_Witness ==
    /\ last.op = "ActualizePotentiality"
    /\ last.err = ErrNone
    /\ Cardinality(actualities) = 2
    /\ \E a \in actualities : a.id = last.created /\ a.potentiality_id = last.id

\* The predicates of a stored potentiality, and which of them are not met.
ConditionsOf(p) == Unmarshal(p.conditions).conditions
Failing(p) ==
    { i \in 1..Len(ConditionsOf(p)) :
        ~checkSingleCondition(p.substance_id, ConditionsOf(p)[i]).met }

\* C5: for every stored potentiality whose specification parses, ready is
\* true iff every predicate passes, the unmet list holds one reason per
\* failing predicate (those of the later ones too, after an earlier one
\* failed), and it is empty iff ready is true.
C5_ConjunctionNoShortCircuit ==
    \A p \in potentialities :
        ~Unmarshal(p.conditions).err =>
            LET c == CheckConditions(p.id)
            IN  /\ c.err = ErrNone
                /\ c.ready <=> (Failing(p) = {})
                /\ Len(c.unmet) = Cardinality(Failing(p))
                /\ \A i \in Failing(p) :
                      \E k \in 1..Len(c.unmet) :
                          c.unmet[k] = checkSingleCondition(p.substance_id,
                                                            ConditionsOf(p)[i]).reason
                /\ (c.unmet = <<>>) <=> c.ready

C5_Witness ==
    /\ last.op = "CheckConditions"
    /\ last.err = ErrNone
    /\ ~last.ready
    /\ Len(last.unmet) = 2
    /\ last.unmet[1] # last.unmet[2]
    /\ \E p \in potentialities : p.id = last.id /\ Cardinality(Failing(p)) = 2

\* The predicate (type, name, value) with a string value, as it is decoded.
Predicate(type, name, value) == DecodeElem(Cond(type, name, value))

\* The rows of modes recording property P of entity E, P being the name of
\* the attribute of row i and E its substance.
SameProperty(i) ==
    JoinedModes(modes[i].substance_id, AttributeName(modes[i].attribute_id))

\* C6 as stated: for every recorded assignment P = V of E, other
\* assignments of P to E or not, the attribute and the mode predicate
\* (P, V) both pass.
C6_BothPassForEveryAssignment ==
    \A i \in 1..Len(modes) :
        LET P == AttributeName(modes[i].attribute_id)
            E == modes[i].substance_id
            V == modes[i].value
        IN  /\ checkAttributeCondition(E, Predicate("attribute", P, V)).met
            /\ checkModeCondition(E, Predicate("mode", P, V)).met

\* C6 amended: for every recorded assignment P = V of E the mode predicate
\* (P, V) passes, and the attribute predicate (P, V) passes when no
\* assignment of P to E has another value.
C6_BothPassWithoutOtherValue ==
    \A i \in 1..Len(modes) :
        LET P == AttributeName(modes[i].attribute_id)
            E == modes[i].substance_id
            V == modes[i].value
        IN  /\ checkModeCondition(E, Predicate("mode", P, V)).met
            /\ (\A j \in SameProperty(i) : modes[j].value = V) =>
                  checkAttributeCondition(E, Predicate("attribute", P, V)).met

C6_Witness ==
    /\ last.op = "CheckConditions" /\ last.ready
    /\ \E p \in potentialities :
          /\ p.id = last.id /\ p.conditions = TextAttributeGreen
          /\ \E i, j \in 1..Len(modes) :
                /\ i # j /\ j \in SameProperty(i) /\ modes[i].value = modes[j].value
                /\ modes[i].substance_id = p.substance_id

\* C7: of several assignments of the same property to an entity, the
\* attribute predicate is evaluated against the one created last: its value
\* passes and any other value fails, whatever the identifiers.
C7_AttributeSeesMostRecent ==
    \A i \in 1..Len(modes) :
        (\A j \in SameProperty(i) : j <= i) =>
            LET P == AttributeName(modes[i].attribute_id)
                E == modes[i].substance_id
            IN  \A V \in ModeValues :
                    checkAttributeCondition(E, Predicate("attribute", P, V)).met
                        <=> V = modes[i].value

\* C4 as stated: a potentiality created with the empty list or the empty
\* text is ready in every state: CheckConditions answers (true, no reason,
\* no error) and ActualizePotentiality succeeds.
C4_EmptyAlwaysReady ==
    \A p \in potentialities :
        p.conditions \in {TextEmpty, TextEmptyList} =>
            /\ CheckConditions(p.id) = [err |-> ErrNone, ready |-> TRUE, unmet |-> <<>>]
            /\ (last.op = "ActualizePotentiality" /\ last.id = p.id) => last.err = ErrNone

\* C8: CreatePotentiality for a substanceID that no substance has fails
\* with "substance not found" and leaves the potentialities as they are.
C8_UnknownSubstanceRejected ==
    [][\A text \in ConditionTexts, s \in SubstanceIDs :
         (/\ last'.op = "CreatePotentiality"
          /\ s \notin substances
          /\ CreatePotentiality(text, s)) =>
            /\ last'.err = ErrSubstanceNotFound
            /\ potentialities' = potentialities]_vars

C8_Witness ==
    /\ last.op = "CreatePotentiality"
    /\ last.err = ErrSubstanceNotFound
    /\ substances # {}

\* A list of well-formed predicates: each an object with a type among
\* attribute, mode and external, a name and a scalar value.
WellFormed(text) ==
    /\ text.form = "array"
    /\ \A i \in 1..Len(text.elems) :
          LET e == text.elems[i]
          IN  /\ e.form = "object"
              /\ e.type.t = "string" /\ e.type.v \in {"attribute", "mode", "external"}
              /\ e.name.t = "string"
              /\ e.value.t \in {"string", "number", "bool"}

C10_OnlyTheFourKinds ==
    /\ [][(last'.op = "AddCausalRelation") =>
            /\ \A f \in Entities, t \in Entities, k \in CauseTypes :
                  AddCausalRelation(f, t, k) =>
                    IF k \in {"material", "formal", "efficient", "final"}
                    THEN /\ last'.err = ErrNone
                         /\ relations' = Append(relations, [cause_type |-> k,
                                                            from_entity |-> f,
                                                            to_entity |-> t])
                    ELSE /\ last'.err = ErrInvalidCauseType
                         /\ relations' = relations
            /\ (last'.err = ErrInvalidCauseType) =>
                  \A e \in Entities : RelationsOf(e)' = RelationsOf(e)]_vars
    /\ [](\A i \in 1..Len(relations) :
            relations[i].cause_type \in {"material", "formal", "efficient", "final"})

C10_Witness ==
    /\ last.op = "AddCausalRelation"
    /\ last.err = ErrInvalidCauseType
    /\ Len(relations) > 0
    /\ \E causes \in GetFourCauses("X") : DOMAIN causes # {}

\* C2: whenever ActualizePotentiality commits an actuality, the conditions
\* of its potentiality are satisfied by the facts at the instant of the
\* commit, whatever other requests came between its check and its commit.
C2_CommittedWhileSatisfied ==
    (last.op = "ActualizePotentiality" /\ last.err = ErrNone) =>
        /\ HasPotentiality(last.id)
        /\ CheckConditions(last.id).err = ErrNone
        /\ CheckConditions(last.id).ready

\* The relations of kind k that touch the entity e, in the order of creation
\* (AddCausalRelation appends).
EdgesOfKind(e, k) ==
    LET ofKind(r) == r.cause_type = k
    IN  SelectSeq(RelationsOf(e), ofKind)

\* C11: GetFourCauses is last-write-wins per kind: for every kind in the
\* map returned for an entity, the value is the to endpoint of the most
\* recently created relation of that kind that touches the entity.
C11_LastWriteWins ==
    [][\A e \in Entities :
         (last'.op = "GetFourCauses" /\ last'.entity = e /\ GetCauses(e)) =>
            \A k \in DOMAIN last'.causes :
               last'.causes[k] = EdgesOfKind(e, k)[Len(EdgesOfKind(e, k))].to_entity]_vars

\* C12: the map GetFourCauses returns for an entity has an entry for a kind
\* iff some stored relation of that kind has the entity as its from or its
\* to endpoint; each value is the to endpoint of such a relation (the entity
\* itself when it is that endpoint), and the to endpoint of the relation
\* when there is one relation only of that kind.
C12_EntriesAreToEndpoints ==
    [][\A e \in Entities :
         (last'.op = "GetFourCauses" /\ last'.entity = e /\ GetCauses(e)) =>
            /\ DOMAIN last'.causes =
                  { k \in validTypes : \E i \in 1..Len(relations) :
                        /\ relations[i].cause_type = k
                        /\ (relations[i].from_entity = e \/ relations[i].to_entity = e) }
            /\ \A k \in DOMAIN last'.causes :
                  /\ \E i \in 1..Len(relations) :
                        /\ relations[i].cause_type = k
                        /\ (relations[i].from_entity = e \/ relations[i].to_entity = e)
                        /\ last'.causes[k] = relations[i].to_entity
                  /\ Len(EdgesOfKind(e, k)) = 1 =>
                        last'.causes[k] = EdgesOfKind(e, k)[1].to_entity
            /\ last'.err = ErrNone
            /\ relations' = relations]_vars

\* GetFourCauses("X") has answered with the four kinds, one relation each.
C12_Witness ==
    /\ last.op = "GetFourCauses"
    /\ last.entity = "X"
    /\ DOMAIN last.causes = validTypes
    /\ \A k \in validTypes :
          /\ Len(EdgesOfKind("X", k)) = 1
          /\ last.causes[k] = "Y"

\* C13: nothing enforces at-most-once actualization.  A call that has passed
\* its check commits its actuality whenever the substance and the
\* potentiality still exist, whether or not actualities of the same
\* potentiality are already stored (written by a call that ran before it or
\* in between its steps): the new record has a fresh id and references the
\* same potentiality.
C13_SecondActualizeSucceeds ==
    [][\A w \in Workers :
         (/\ calls[w].pc = "create" /\ calls'[w].pc = "idle"
          /\ calls[w].substanceID \in substances
          /\ HasPotentiality(calls[w].potentialityID)
          /\ Create(w)) =>
            /\ last'.err = ErrNone
            /\ \E a \in actualities' \ actualities :
                  /\ actualities' = actualities \cup {a}
                  /\ a.potentiality_id = calls[w].potentialityID
                  /\ a.id \notin { b.id : b \in actualities }
                  /\ a.id = last'.created]_vars

\* Two ActualizePotentiality calls on one potentiality have both succeeded.
C13_Witness ==
    /\ last.op = "ActualizePotentiality"
    /\ last.err = ErrNone
    /\ \E a, b \in actualities :
          /\ a.id # b.id
          /\ a.potentiality_id = b.potentiality_id
          /\ b.id = last.created

\* C14: every actuality is written by an ActualizePotentiality call whose own
\* check, made earlier in that call, found every condition of the record's
\* potentiality met: a step that adds an actuality is the write of a call
\* that stands past its loop with allMet true and no unmet condition, and a
\* call stands past its loop only so.
C14_WrittenAfterOwnCheck ==
    /\ [][(actualities' \ actualities # {}) =>
            \E w \in Workers :
               /\ calls[w].pc = "create"
               /\ calls'[w].pc = "idle"
               /\ calls[w].allMet
               /\ calls[w].unmetConditions = <<>>
               /\ calls[w].i = Len(calls[w].conditions) + 1
               /\ \E a \in actualities' :
                     /\ actualities' = actualities \cup {a}
                     /\ a.potentiality_id = calls[w].potentialityID
                     /\ a.substance_id = calls[w].substanceID]_vars
    /\ [](\A w \in Workers :
            calls[w].pc \in {"reload", "create"} =>
               /\ calls[w].allMet
               /\ calls[w].i = Len(calls[w].conditions) + 1)

\* A call has written its actuality while another call is in its loop.
C14_Witness ==
    /\ last.op = "ActualizePotentiality"
    /\ last.err = ErrNone
    /\ \E a \in actualities : a.id = last.created /\ a.potentiality_id = last.id
    /\ \E w \in Workers : calls[w].pc = "check"

\* C15: CheckConditions is side-effect free: whatever the id (of a stored
\* potentiality or of none, ready or not, parseable or not), the substances,
\* attributes, modes, potentialities, actualities and causal relations are
\* after the call what they were before it.
C15_CheckConditionsWritesNothing ==
    [][\A p \in PotentialityIDs :
         (last'.op = "CheckConditions" /\ last'.id = p /\ HandlerCheckConditions(p)) =>
            /\ substances' = substances
            /\ attributes' = attributes
            /\ modes' = modes
            /\ potentialities' = potentialities
            /\ actualities' = actualities
            /\ relations' = relations]_vars

\* CheckConditions has answered with an error (no such potentiality, or a
\* stored text that does not parse) while records of every kind are stored.
C15_Witness ==
    /\ last.op = "CheckConditions"
    /\ last.err \in {ErrPotentialityNotFound, ErrInvalidConditions}
    /\ potentialities # {}
    /\ actualities # {}
    /\ \E p \in potentialities : p.conditions = TextEmpty

PredicateNames == {"weather", "color", ""}
PredicateValues ==
    { GoNil, DecodeValue(JStr("green")), DecodeValue(JNum("5.0")), DecodeValue(JBool("true")) }

\* C17: a predicate of type external passes in every state of the facts,
\* whatever its name and value and whether or not the entity has any
\* assignment, with no reason; a potentiality gated on external predicates
\* only is ready with no unmet condition, and beside a mode predicate the
\* external one adds nothing to the reasons the mode predicate gives.
C17_ExternalAlwaysPasses ==
    /\ \A s \in SubstanceIDs, n \in PredicateNames, v \in PredicateValues :
          checkSingleCondition(s, [Type |-> "external", Name |-> n, Value |-> v])
             = Verdict(TRUE, "")
    /\ \A p \in potentialities :
          /\ p.conditions = TextExternal =>
                CheckConditions(p.id) = [err |-> ErrNone, ready |-> TRUE, unmet |-> <<>>]
          /\ p.conditions = TextExternalMode =>
                LET v == checkModeCondition(p.substance_id,
                                            DecodeElem(Cond("mode", "color", "green")))
                IN  CheckConditions(p.id) =
                       [err |-> ErrNone, ready |-> v.met,
                        unmet |-> IF v.met THEN <<>> ELSE <<v.reason>>]

\* CheckConditions has found ready a potentiality gated on an external
\* predicate, on an entity with no assignment, where a potentiality gated on
\* an external and a mode predicate is not ready.
C17_Witness ==
    /\ last.op = "CheckConditions"
    /\ last.err = ErrNone
    /\ last.ready
    /\ last.unmet = <<>>
    /\ modes = <<>>
    /\ PotentialityByID(last.id).conditions = TextExternal
    /\ \E p \in potentialities :
          p.conditions = TextExternalMode /\ ~CheckConditions(p.id).ready

\* Types that are none of attribute, mode and external.
UnknownTypes == {"sensor", "Mode", ""}

\* C18: evaluation fails closed on unrecognized predicate types.  In every
\* state of the facts a predicate whose type is none of attribute, mode and
\* external fails with the reason "unknown condition type: <type>"; a
\* potentiality that contains one is never ready and has no actuality, and
\* every ActualizePotentiality on it returns "conditions not met" and
\* writes nothing.
C18_UnknownTypeFailsClosed ==
    /\ [](/\ \A s \in SubstanceIDs, t \in UnknownTypes, n \in PredicateNames,
                v \in PredicateValues :
                checkSingleCondition(s, [Type |-> t, Name |-> n, Value |-> v])
                   = Verdict(FALSE, "unknown condition type: " \o t)
           /\ \A p \in potentialities :
                p.conditions = TextUnknownAmong =>
                   LET c == CheckConditions(p.id)
                   IN  /\ c.err = ErrNone
                       /\ ~c.ready
                       /\ \E i \in 1..Len(c.unmet) :
                             c.unmet[i] = "unknown condition type: sensor"
                       /\ \A a \in actualities : a.potentiality_id # p.id)
    /\ [][\A p \in potentialities :
            (/\ last'.op = "ActualizePotentiality" /\ last'.id = p.id
             /\ p.conditions = TextUnknownAmong
             /\ ActualizePotentiality(p.id, "grew leaves")) =>
                /\ last'.err = ErrConditionsNotMet
                /\ actualities' = actualities]_vars

\* ActualizePotentiality has been refused for the predicate of unknown type
\* alone: the mode predicate beside it is met.
C18_Witness ==
    /\ last.op = "ActualizePotentiality"
    /\ last.err = ErrConditionsNotMet
    /\ last.unmet = <<"unknown condition type: sensor">>
    /\ \E p \in potentialities : p.id = last.id /\ p.conditions = TextUnknownAmong
    /\ actualities # {}

\* C19: no failure is swallowed or mis-classified.  When the lookup of an
\* attribute or a mode predicate fails in the store, CheckConditions and
\* ActualizePotentiality return an error, which is not "conditions not met":
\* never a verdict with an unmet-condition reason.
C19_StoreFailureIsAnError ==
    [][\A p \in potentialities :
         (/\ last'.op \in {"CheckConditions", "ActualizePotentiality"}
          /\ last'.id = p.id
          /\ \/ HandlerCheckConditionsOn({1}, p.id)
             \/ ActualizePotentialityOn({1}, p.id, "grew leaves")) =>
            /\ last'.err \notin {ErrNone, ErrConditionsNotMet}
            /\ last'.unmet = <<>>]_vars

\* The error CheckConditions owes for an id: "potentiality not found" when no
\* potentiality bears it, "invalid conditions format" when the stored text
\* does not parse, none otherwise.
CheckFailure(p) ==
    IF ~HasPotentiality(p) THEN ErrPotentialityNotFound
    ELSE IF Unmarshal(PotentialityByID(p).conditions).err THEN ErrInvalidConditions
    ELSE ErrNone

\* C20: a failure of the readiness check is an error, distinct from the
\* verdict "conditions not met".  CheckConditions returns "potentiality not
\* found" for an id that no potentiality bears and "invalid conditions
\* format" for a stored text that does not parse, in both cases with no
\* verdict and no reasons; ActualizePotentiality returns that same error and
\* writes no actuality.
C20_CheckFailuresAreErrors ==
    [][\A p \in PotentialityIDs :
         (/\ last'.op \in {"CheckConditions", "ActualizePotentiality"}
          /\ last'.id = p
          /\ CheckFailure(p) # ErrNone
          /\ \/ HandlerCheckConditions(p)
             \/ ActualizePotentiality(p, "grew leaves")) =>
            /\ last'.err = CheckFailure(p)
            /\ last'.err # ErrConditionsNotMet
            /\ ~last'.ready
            /\ last'.unmet = <<>>
            /\ actualities' = actualities]_vars

\* ActualizePotentiality has been refused with "invalid conditions format"
\* on a stored text that does not parse, beside a potentiality that has an
\* actuality.
C20_Witness ==
    /\ last.op = "ActualizePotentiality"
    /\ last.err = ErrInvalidConditions
    /\ \E p \in potentialities : p.id = last.id /\ p.conditions = TextEmpty
    /\ actualities # {}

-----------------------------------------------------------------------------
(* Potentialities created before their facts are recorded.                 *)

\* One entity, both values of its color, a potentiality of each lookup.
PendingTexts == { TextAttributeGreen, TextModeGreen }

NextPending ==
    \/ CreateSubstance
    \/ \E value \in ModeValues : CreateMode(value, 1, "attr-1")
    \/ \E text \in PendingTexts : CreatePotentiality(text, 1)
    \/ \E p \in PotentialityIDs : HandlerCheckConditions(p)
    \/ \E p \in PotentialityIDs : ActualizePotentiality(p, "grew leaves")

SpecPending == Init /\ [][NextPending]_vars

\* Every assignment that the attribute and mode predicates of p name is
\* recorded for the entity of p, and no assignment of the same property was
\* recorded after it.
Recorded(p) ==
    \A i \in 1..Len(ConditionsOf(p)) :
        LET condition == ConditionsOf(p)[i]
            J == JoinedModes(p.substance_id, condition.Name)
        IN  condition.Type \in {"attribute", "mode"} =>
                \E j \in J : /\ modes[j].value = Sprint(condition.Value)
                             /\ \A k \in J : k <= j

\* C21: CreatePotentiality for an existing entity succeeds whether or not
\* the conditions hold; ActualizePotentiality while the conditions are unmet
\* fails and writes nothing; and ActualizePotentiality once the assignments
\* the conditions name are recorded succeeds, adding one actuality.
C21_ActualizableOnceRecorded ==
    [][/\ \A text \in PendingTexts :
            (/\ last'.op = "CreatePotentiality"
             /\ 1 \in substances
             /\ CreatePotentiality(text, 1)) =>
                /\ last'.err = ErrNone
                /\ \E p \in potentialities' \ potentialities : p.conditions = text
       /\ \A p \in potentialities :
            (/\ last'.op = "ActualizePotentiality"
             /\ last'.id = p.id
             /\ ActualizePotentiality(p.id, "grew leaves")) =>
                /\ ~CheckConditions(p.id).ready =>
                      /\ last'.err = ErrConditionsNotMet
                      /\ tables' = tables
                /\ Recorded(p) =>
                      /\ last'.err = ErrNone
                      /\ Cardinality(actualities') = Cardinality(actualities) + 1]_vars

-----------------------------------------------------------------------------
(* The operations of the engine, all of them, on facts that are only added. *)

NextEngine ==
    \/ CreateSubstance
    \/ CreateMode("green", 1, "attr-1")
    \/ \E s \in SubstanceIDs : CreatePotentiality(TextModeGreen, s)
    \/ \E p \in PotentialityIDs : HandlerCheckConditions(p)
    \/ \E p \in PotentialityIDs : ActualizePotentiality(p, "grew leaves")
    \/ \E k \in {"material", "invalid"} : AddCausalRelation("X", "Y", k)
    \/ GetCauses("X")
    \/ \E s \in SubstanceIDs : GetSubstanceEvolution(s)

SpecEngine == Init /\ [][NextEngine]_vars

\* C22: under the operations of the engine, every actuality of a state is an
\* actuality of the next state with the same fields, and the table of
\* actualities changes only by a successful ActualizePotentiality, which
\* adds one record.
C22_ActualitiesPersist ==
    [][/\ actualities \subseteq actualities'
       /\ actualities' # actualities =>
            /\ last'.op = "ActualizePotentiality"
            /\ last'.err = ErrNone
            /\ Cardinality(actualities' \ actualities) = 1]_vars

C22_Witness ==
    /\ Cardinality(actualities) = 2
    /\ \E a, b \in actualities : a # b /\ a.potentiality_id = b.potentiality_id
    /\ last.op \in {"CreatePotentiality", "CheckConditions", "AddCausalRelation",
                    "GetFourCauses", "GetSubstanceEvolution"}

\* C23: a call of ActualizePotentiality, whether it succeeds or fails, leaves
\* the potentialities (the one it names and its conditions among them), the
\* substances, the attributes, the modes and the causal relations as they
\* were.
C23_ActualizeWritesOnlyActualities ==
    [][\A p \in PotentialityIDs :
         (/\ last'.op = "ActualizePotentiality"
          /\ last'.id = p
          /\ ActualizePotentiality(p, "grew leaves")) =>
             /\ potentialities' = potentialities
             /\ substances' = substances
             /\ fields' = fields
             /\ attributes' = attributes
             /\ modes' = modes
             /\ relations' = relations]_vars

C23_Witness ==
    /\ last.op = "ActualizePotentiality"
    /\ last.err = ErrNone
    /\ \E p \in potentialities : p.id = last.id /\ p.conditions = TextModeGreen
    /\ \E a \in actualities : a.id = last.created /\ a.potentiality_id = last.id
    /\ modes # <<>>
    /\ relations # <<>>

-----------------------------------------------------------------------------
(* Causal relations between the very entities that bear the potentialities. *)

\* The edges asked for: both directions between the two entities, and one of
\* no kind.
OrthogonalEdges == { <<1, 2, "material">>, <<2, 1, "material">>, <<1, 2, "invalid">> }

NextOrthogonal ==
    \/ CreateSubstance
    \/ modes = <<>> /\ CreateMode("green", 1, "attr-1")
    \/ CreatePotentiality(TextModeGreen, 1)
    \/ \E p \in PotentialityIDs : ActualizePotentiality(p, "grew leaves")
    \/ \E r \in OrthogonalEdges :
          Len(relations) < MaxEdges /\ AddCausalRelation(r[1], r[2], r[3])
    \/ GetCauses(1)

SpecOrthogonal == Init /\ [][NextOrthogonal]_vars

\* C24: a call of AddCausalRelation leaves the potentialities, the
\* actualities and what CheckConditions answers for every potentiality as
\* they were, and a call of CreatePotentiality or ActualizePotentiality
\* leaves what GetFourCauses can answer for every entity as it was.
C24_CausalGraphOrthogonal ==
    [][/\ last'.op = "AddCausalRelation" =>
            /\ potentialities' = potentialities
            /\ actualities' = actualities
            /\ \A p \in PotentialityIDs : CheckConditions(p)' = CheckConditions(p)
       /\ last'.op \in {"CreatePotentiality", "ActualizePotentiality"} =>
            \A s \in SubstanceIDs : GetFourCauses(s)' = GetFourCauses(s)]_vars

C24_Witness ==
    /\ last.op = "AddCausalRelation"
    /\ last.err = ErrNone
    /\ RelationsOf(1) # <<>>
    /\ \E p \in potentialities : CheckConditions(p.id).ready
    /\ actualities # {}

-----------------------------------------------------------------------------
(* The evolution of two entities, each with potentialities that are ready  *)
(* and potentialities that are not.                                        *)

EvolutionTexts == { TextExternal, TextModeGreen }

NextEvolution ==
    \/ CreateSubstance
    \/ \E text \in EvolutionTexts, s \in SubstanceIDs : CreatePotentiality(text, s)
    \/ \E p \in PotentialityIDs : ActualizePotentiality(p, "grew leaves")
    \/ \E s \in SubstanceIDs : GetSubstanceEvolution(s)

SpecEvolution == Init /\ [][NextEvolution]_vars

\* An actuality as the table holds it, from one as the evolution returns it.
Row(a) == NewActuality(a.id, a.description, a.substance_id, a.potentiality_id)

\* C25: GetSubstanceEvolution(s) returns the potentialities whose substance
\* is s and the actualities whose substance is s, all of them and no other;
\* a successful ActualizePotentiality on a potentiality of s makes the
\* actualities it returns one more and leaves the potentialities it returns
\* as they were, and a failed one changes neither.
C25_EvolutionOfTheSubstance ==
    [][/\ \A s \in SubstanceIDs :
            (/\ last'.op = "GetSubstanceEvolution"
             /\ last'.id = s
             /\ GetSubstanceEvolution(s)) =>
                /\ last'.evolution.potentialities =
                      { p \in potentialities : p.substance_id = s }
                /\ { Row(a) : a \in last'.evolution.actualities } =
                      { a \in actualities : a.substance_id = s }
                /\ Cardinality(last'.evolution.actualities) =
                      Cardinality({ a \in actualities : a.substance_id = s })
       /\ \A p \in potentialities :
            (/\ last'.op = "ActualizePotentiality"
             /\ last'.id = p.id
             /\ ActualizePotentiality(p.id, "grew leaves")) =>
                LET before == SubstanceEvolution(p.substance_id)
                    after == SubstanceEvolution(p.substance_id)'
                IN  IF last'.err = ErrNone
                    THEN /\ before.actualities \subseteq after.actualities
                         /\ Cardinality(after.actualities) =
                               Cardinality(before.actualities) + 1
                         /\ after.potentialities = before.potentialities
                    ELSE after = before]_vars

C25_Witness ==
    /\ last.op = "GetSubstanceEvolution"
    /\ Cardinality(last.evolution.actualities) = 1
    /\ Cardinality(last.evolution.potentialities) = 1
    /\ \E a \in actualities : a.substance_id # last.id
    /\ \E p \in potentialities : p.substance_id # last.id

\* C26: CreateMode naming a substance or an attribute that is not stored is
\* answered with an error and stores no mode, and in every state every mode
\* names a stored substance and a stored attribute.
C26_ModesReferenceExistingRecords ==
    /\ [][\A m \in FactModes :
            (/\ last'.op = "CreateMode"
             /\ \/ m[2] \notin substances
                \/ ~\E a \in attributes : a.id = m[3]
             /\ CreateMode(m[1], m[2], m[3])) =>
                /\ last'.err # ErrNone
                /\ modes' = modes]_vars
    /\ [](\A i \in 1..Len(modes) :
            /\ modes[i].substance_id \in substances
            /\ \E a \in attributes : a.id = modes[i].attribute_id)

C26_Witness ==
    /\ last.op = "CreateMode"
    /\ last.err = ErrCreateMode
    /\ last.id \in substances
    /\ modes # <<>>

-----------------------------------------------------------------------------
(* The descriptive fields of the substances, updated among their facts.    *)

\* The bodies of the requests: name and essence, kind alone, no key.
UpdateRequests ==
    { [Name |-> Ptr("Tree-001-Updated"), Kind |-> Nil, Essence |-> Ptr("Updated essence")],
      [Name |-> Nil, Kind |-> Ptr("Pine"), Essence |-> Nil],
      [Name |-> Nil, Kind |-> Nil, Essence |-> Nil] }

NextSubstances ==
    \/ CreateSubstance
    \/ \E id \in SubstanceIDs, req \in UpdateRequests : UpdateSubstance(id, req)
    \/ modes = <<>> /\ CreateMode("green", 1, "attr-1")
    \/ CreatePotentiality(TextModeGreen, 1)
    \/ \E p \in PotentialityIDs : ActualizePotentiality(p, "grew leaves")

SpecSubstances == Init /\ [][NextSubstances]_vars

\* C27: UpdateSubstance(id, req) on a stored substance keeps its id, sets
\* each of name, kind and essence that req supplies and keeps each it does
\* not supply, and changes no other substance and no attribute, mode,
\* potentiality, actuality or relation; on an id that is not stored it
\* answers "substance not found" and changes nothing.
C27_UpdateChangesSuppliedFieldsOnly ==
    [][\A id \in SubstanceIDs, req \in UpdateRequests :
         (/\ last'.op = "UpdateSubstance"
          /\ last'.id = id
          /\ UpdateSubstance(id, req)) =>
             IF id \in substances
             THEN /\ last'.err = ErrNone
                  /\ substances' = substances
                  /\ fields'[id].name = IF req.Name.nil THEN fields[id].name ELSE req.Name.v
                  /\ fields'[id].kind = IF req.Kind.nil THEN fields[id].kind ELSE req.Kind.v
                  /\ fields'[id].essence =
                        IF req.Essence.nil THEN fields[id].essence ELSE req.Essence.v
                  /\ \A other \in substances \ {id} : fields'[other] = fields[other]
                  /\ <<attributes, modes, potentialities, actualities, relations>>' =
                        <<attributes, modes, potentialities, actualities, relations>>
             ELSE /\ last'.err = ErrSubstanceNotFound
                  /\ tables' = tables]_vars

C27_Witness ==
    /\ last.op = "UpdateSubstance"
    /\ last.err = ErrNone
    /\ fields[last.id] = NewSubstance("Tree-001-Updated", "Oak", "Updated essence")
    /\ \E other \in substances \ {last.id} : fields[other] = Tree
    /\ modes # <<>>
    /\ potentialities # {}
    /\ actualities # {}

\* The names and the string values the predicates are asked with.
ComparedNames == {"color", "height", "season", ""}
ComparedValues == ModeValues \cup {"blue", "", "<nil>"}

\* C28: in every state, for every entity, name and string value, the mode
\* predicate passes whenever the attribute predicate passes, and when the
\* two differ (the mode predicate passing alone) the entity has several
\* assignments of that name.
C28_AttributeImpliesMode ==
    \A E \in SubstanceIDs, P \in ComparedNames, V \in ComparedValues :
        LET attribute == checkSingleCondition(E, Predicate("attribute", P, V)).met
            mode == checkSingleCondition(E, Predicate("mode", P, V)).met
        IN  /\ attribute => mode
            /\ attribute # mode => Cardinality(JoinedModes(E, P)) >= 2

C28_Witness ==
    /\ last.op = "CheckConditions"
    /\ last.ready
    /\ \E p \in potentialities : p.id = last.id /\ p.conditions = TextBoth
    /\ checkSingleCondition(1, Predicate("mode", "color", "green")).met
    /\ ~checkSingleCondition(1, Predicate("attribute", "color", "green")).met
    /\ checkSingleCondition(1, Predicate("attribute", "color", "red")).met

-----------------------------------------------------------------------------
(* Facts that are only added: no request deletes anything.                 *)

AdditionTexts == { TextModeGreen, TextExternalMode, TextAttributeGreen }

NextAdditions ==
    \/ substances = {} /\ CreateSubstance
    \/ \E name \in AttributeNames : CreateAttribute(name)
    \/ \E value \in ModeValues : CreateMode(value, 1, "attr-1")
    \/ \E text \in AdditionTexts : potentialities = {} /\ CreatePotentiality(text, 1)
    \/ \E p \in PotentialityIDs : HandlerCheckConditions(p)
    \/ \E p \in PotentialityIDs : ActualizePotentiality(p, "grew leaves")
    \/ relations = <<>> /\ AddCausalRelation(1, 2, "material")

SpecAdditions == Init /\ [][NextAdditions]_vars

\* Every predicate of p is of type mode or external.
ModeOrExternal(p) ==
    /\ ~Unmarshal(p.conditions).err
    /\ \A i \in 1..Len(ConditionsOf(p)) : ConditionsOf(p)[i].Type \in {"mode", "external"}

C30_ActualitiesReferToTheirPotentiality ==
    \A a \in actualities :
        /\ \E p \in potentialities :
              p.id = a.potentiality_id /\ p.substance_id = a.substance_id
        /\ a.substance_id \in substances

C30_Witness ==
    /\ last.op = "ActualizePotentiality"
    /\ last.err = ErrNone
    /\ \E a, b \in actualities :
          /\ a.id = last.created
          /\ a.potentiality_id = last.id
          /\ b.substance_id # a.substance_id

====
